---- MODULE Spec2Model ----
(***************************************************************************)
(* A model of WebParser (src/main.py): the paginated fetch loop            *)
(* parse_website, the item locator _auto_detect_items, the rule-driven     *)
(* field extraction inside parse_website and the heuristic extraction      *)
(* _extract_auto_data.                                                     *)
(*                                                                         *)
(* Text is a sequence of one-character strings, a URL a sequence of        *)
(* tokens.  A parsed document is the sequence of its nodes in document     *)
(* order (preorder), each with its depth: the descendants of node i are    *)
(* the nodes that follow it while their depth stays above depth[i].        *)
(***************************************************************************)
EXTENDS Integers, Sequences, FiniteSets, TLC

VARIABLES
    url,        \* parse_website's url argument
    selectors,  \* its selectors argument: NoRules (None) or Rules(the dict's items, in order)
    max_pages,  \* its max_pages argument
    delay,      \* its delay argument
    pc,         \* position in parse_website: "fetch", "items", "done"
    page,       \* the loop variable
    soup,       \* the parsed document of the current page (0: none yet)
    items,      \* the located items: indexes into the document, in order
    idx,        \* position of the for-loop over items
    data,       \* the result list
    err,        \* what ended the run: "none", "fetch", "extract"
    log,        \* history: the fetches and sleeps performed so far, in order
    fetched,    \* history: the documents the successful fetches returned
    extracted,  \* history: how the last item was extracted: "none", "rules", "auto"
    arg,        \* input of the function under test (function specifications)
    ret         \* its result, once called

vars == <<url, selectors, max_pages, delay, pc, page, soup, items, idx, data,
          err, log, fetched, extracted, arg, ret>>

driverVars == <<url, selectors, max_pages, delay, pc, page, soup, items, idx,
                data, err, log, fetched, extracted>>

(***************************************************************************)
(* Bounds of the model and constants of the program.                       *)
(***************************************************************************)
MaxPages == 3
MaxRun == 3
MaxPad == 11
MaxText == 202
MaxAnchors == 2
MaxShort == 12
MaxChildren == 2

FallbackLimit == 10
TextMin == 10
TextCut == 200

Ellipsis == <<".", ".", ".">>

Min(a, b) == IF a < b THEN a ELSE b

(***************************************************************************)
(* Elements.                                                               *)
(***************************************************************************)
NoAttr == [has |-> FALSE, v |-> <<>>]
Attr(s) == [has |-> TRUE, v |-> s]

\* element.get(name) is truthy: the attribute is there and is not "".
Truthy(a) == a.has /\ a.v # <<>>

El(tag, cls, depth) ==
    [tag |-> tag, cls |-> cls, depth |-> depth, href |-> NoAttr,
     src |-> NoAttr, text |-> <<>>]

TextNode(s, depth) == [El("#text", <<>>, depth) EXCEPT !.text = s]

Anchor(href, depth) == [El("a", <<>>, depth) EXCEPT !.href = href]

Img(src, depth) == [El("img", <<>>, depth) EXCEPT !.src = src]

\* n characters that differ from their neighbours, so that a prefix, a suffix
\* and a shifted copy of a text are different texts.
Chars(n) == [i \in 1..n |-> <<"a", "b", "c">>[(i % 3) + 1]]

(***************************************************************************)
(* CSS selectors: an optional tag and one optional condition on the class  *)
(* attribute.  A class token is a sequence of word parts, so "items" is    *)
(* <<"item", "s">>: it contains "item" and is not the class "item".        *)
(***************************************************************************)
Sel(tag, kind, a) == [tag |-> tag, kind |-> kind, arg |-> a]

TagSel(tag) == Sel(tag, "any", "")

ClassSel(c) == Sel("*", "class", c)

DivClassContains(c) == Sel("div", "substr", c)

Matches(n, sel) ==
    /\ n.tag # "#text"
    /\ sel.tag \in {"*", n.tag}
    /\ CASE sel.kind = "any" -> TRUE
         [] sel.kind = "class" ->
                \E t \in 1..Len(n.cls) : n.cls[t] = <<sel.arg>>
         [] sel.kind = "substr" ->
                \E t \in 1..Len(n.cls) : \E p \in 1..Len(n.cls[t]) : n.cls[t][p] = sel.arg

Indexes(doc) == [i \in 1..Len(doc) |-> i]

\* i = 0 stands for the document itself.
IsDescendant(doc, i, j) ==
    IF i = 0 THEN TRUE
    ELSE j > i /\ \A k \in (i + 1)..j : doc[k].depth > doc[i].depth

\* soup.select(sel), item.select(sel): the matching descendants in document order.
Select(doc, i, sel) ==
    SelectSeq(Indexes(doc), LAMBDA j : IsDescendant(doc, i, j) /\ Matches(doc[j], sel))

\* item.find_all(tag)
FindAll(doc, i, tags) ==
    SelectSeq(Indexes(doc), LAMBDA j : IsDescendant(doc, i, j) /\ doc[j].tag \in tags)

RECURSIVE StripLeft(_)
StripLeft(s) == IF s # <<>> /\ Head(s) = " " THEN StripLeft(Tail(s)) ELSE s

RECURSIVE StripRight(_)
StripRight(s) ==
    IF s # <<>> /\ s[Len(s)] = " " THEN StripRight(SubSeq(s, 1, Len(s) - 1)) ELSE s

Strip(s) == StripRight(StripLeft(s))

RECURSIVE TextFrom(_, _, _)
TextFrom(doc, i, j) ==
    IF j > Len(doc) \/ doc[j].depth <= doc[i].depth THEN <<>>
    ELSE (IF doc[j].tag = "#text" THEN Strip(doc[j].text) ELSE <<>>)
         \o TextFrom(doc, i, j + 1)

\* element.get_text(strip=True): the stripped text nodes under the element, joined.
get_text(doc, i) == TextFrom(doc, i, i + 1)

(***************************************************************************)
(* Records: a dict in insertion order.  Every value is a list of strings;  *)
(* `list` tells a list value from a string value (a list of one).          *)
(***************************************************************************)
Str(s) == [list |-> FALSE, v |-> <<s>>]

List(l) == [list |-> TRUE, v |-> l]

HasKey(rec, key) == \E p \in 1..Len(rec) : rec[p].k = key

Get(rec, key) == rec[CHOOSE p \in 1..Len(rec) : rec[p].k = key]

\* rec[key] = val
DictSet(rec, key, val) ==
    IF HasKey(rec, key)
    THEN [p \in 1..Len(rec) |->
             IF rec[p].k = key THEN [k |-> key, list |-> val.list, v |-> val.v] ELSE rec[p]]
    ELSE Append(rec, [k |-> key, list |-> val.list, v |-> val.v])

(***************************************************************************)
(* URLs.  The first token of an absolute URL is its scheme and host.       *)
(***************************************************************************)
Origins == {"https://x.com", "https://y.com"}

Contains(s, t) == \E p \in 1..Len(s) : s[p] = t

\* Mutant of PageUrl: the page parameter always starts a query string.
PageUrlAlwaysQuery(u, p) ==
    IF p = 1 THEN u ELSE u \o <<"?", "page=", ToString(p)>>

\* '?' in url, then the f-string for pages after the first.
PageUrl(u, p) ==
    IF p = 1 THEN u
    ELSE IF Contains(u, "?") THEN u \o <<"&", "page=", ToString(p)>>
    ELSE u \o <<"?", "page=", ToString(p)>>

\* urlsplit raises ValueError("Invalid IPv6 URL") on a host with an unclosed bracket.
UrljoinRaises(href) == href # <<>> /\ href[1] = "http://["

\* The base up to and including the last "/" of its path (before any query).
BaseDir(base) ==
    LET q == IF Contains(base, "?")
             THEN CHOOSE p \in 1..Len(base) :
                      base[p] = "?" /\ \A r \in 1..(p - 1) : base[r] # "?"
             ELSE Len(base) + 1
        slashes == {p \in 2..(q - 1) : base[p] = "/"}
    IN  IF slashes = {} THEN <<base[1], "/">>
        ELSE SubSeq(base, 1, CHOOSE p \in slashes : \A r \in slashes : r <= p)

\* urllib.parse.urljoin(base, href) for an absolute href, a host-relative one
\* ("/a/b") and a path-relative one ("item").
urljoin(base, href) ==
    IF href = <<>> THEN base
    ELSE IF href[1] \in Origins THEN href
    ELSE IF href[1] = "/" THEN <<base[1]>> \o href
    ELSE BaseDir(base) \o href

(***************************************************************************)
(* _auto_detect_items                                                      *)
(***************************************************************************)
Candidates ==
    << DivClassContains("item"), DivClassContains("product"),
       DivClassContains("card"), DivClassContains("post"),
       TagSel("article"), TagSel("li"),
       ClassSel("item"), ClassSel("product"), ClassSel("card"), ClassSel("post") >>

\* soup.find_all('div')[:10]
FirstDivs(doc) ==
    LET divs == FindAll(doc, 0, {"div"})
    IN  SubSeq(divs, 1, Min(FallbackLimit, Len(divs)))

RECURSIVE DetectFrom(_, _)
DetectFrom(doc, c) ==
    IF c > Len(Candidates) THEN FirstDivs(doc)
    ELSE LET found == Select(doc, 0, Candidates[c])
         IN  IF Len(found) > 1 THEN found ELSE DetectFrom(doc, c + 1)

\* Mutant of _auto_detect_items: a single match is enough.
RECURSIVE DetectFromAnyMatch(_, _)
DetectFromAnyMatch(doc, c) ==
    IF c > Len(Candidates) THEN FirstDivs(doc)
    ELSE LET found == Select(doc, 0, Candidates[c])
         IN  IF Len(found) > 0 THEN found ELSE DetectFromAnyMatch(doc, c + 1)

DetectAnyMatch(doc) == DetectFromAnyMatch(doc, 1)

_auto_detect_items(doc) == DetectFrom(doc, 1)

(***************************************************************************)
(* _extract_auto_data                                                      *)
(***************************************************************************)
Headings == {"h1", "h2", "h3", "h4", "h5", "h6"}

\* [x.get(name) for x in found if x.get(name)]
TruthyAttrs(doc, found, name) ==
    LET at(j) == IF name = "href" THEN doc[j].href ELSE doc[j].src
        kept == SelectSeq(found, LAMBDA j : Truthy(at(j)))
    IN  [p \in 1..Len(kept) |-> at(kept[p]).v]

\* Mutant of Shorten: a text of exactly 200 characters gets the marker too.
ShortenFromCut(text) ==
    IF Len(text) >= TextCut THEN SubSeq(text, 1, TextCut) \o Ellipsis ELSE text

\* text[:200] + '...' if len(text) > 200 else text
Shorten(text) ==
    IF Len(text) > TextCut THEN SubSeq(text, 1, TextCut) \o Ellipsis ELSE text

_extract_auto_data(doc, i) ==
    LET title == FindAll(doc, i, Headings)
        d1 == IF title # <<>> THEN DictSet(<<>>, "title", Str(get_text(doc, title[1])))
              ELSE <<>>
        links == FindAll(doc, i, {"a"})
        d2 == IF links # <<>> THEN DictSet(d1, "links", List(TruthyAttrs(doc, links, "href")))
              ELSE d1
        images == FindAll(doc, i, {"img"})
        d3 == IF images # <<>> THEN DictSet(d2, "images", List(TruthyAttrs(doc, images, "src")))
              ELSE d2
        text == get_text(doc, i)
    IN  IF text # <<>> /\ Len(text) > TextMin THEN DictSet(d3, "text", Str(Shorten(text)))
        ELSE d3

(***************************************************************************)
(* The rule set and the body of parse_website's loops.                     *)
(***************************************************************************)
NoRules == [given |-> FALSE, rules |-> <<>>]

Rules(r) == [given |-> TRUE, rules |-> r]

Rule(key, sel) == [k |-> key, sel |-> sel]

\* The truth value of `selectors`: None and {} are both false.
RulesTruthy(sels) == sels.given /\ sels.rules # <<>>

\* Mutant of ItemsSelector: the default is the list entry, not the div.
ItemsSelectorDefaultLi(sels) ==
    IF \E p \in 1..Len(sels.rules) : sels.rules[p].k = "items"
    THEN sels.rules[CHOOSE p \in 1..Len(sels.rules) : sels.rules[p].k = "items"].sel
    ELSE TagSel("li")

\* selectors.get('items', 'div')
ItemsSelector(sels) ==
    IF \E p \in 1..Len(sels.rules) : sels.rules[p].k = "items"
    THEN sels.rules[CHOOSE p \in 1..Len(sels.rules) : sels.rules[p].k = "items"].sel
    ELSE TagSel("div")

\* Lines 60-63: the items of a page.
LocateItems(doc, sels) ==
    IF ~RulesTruthy(sels) THEN _auto_detect_items(doc)
    ELSE Select(doc, 0, ItemsSelector(sels))

\* The href test of line 76.
HasLink(e) == Truthy(e.href)

\* Lines 70-77, from the n-th rule on: the record, or the exception urljoin raised.
RECURSIVE RuleFields(_, _, _, _, _, _)
RuleFields(doc, i, rules, n, u, rec) ==
    IF n > Len(rules) THEN [raised |-> FALSE, rec |-> rec]
    ELSE IF rules[n].k = "items" THEN RuleFields(doc, i, rules, n + 1, u, rec)
    ELSE LET found == Select(doc, i, rules[n].sel)
         IN  IF found = <<>> THEN RuleFields(doc, i, rules, n + 1, u, rec)
             ELSE LET element == doc[found[1]]
                      r1 == DictSet(rec, rules[n].k, Str(get_text(doc, found[1])))
                  IN  IF ~HasLink(element) THEN RuleFields(doc, i, rules, n + 1, u, r1)
                      ELSE IF UrljoinRaises(element.href.v)
                      THEN [raised |-> TRUE, rec |-> r1]
                      ELSE RuleFields(doc, i, rules, n + 1, u,
                               DictSet(r1, rules[n].k \o "_link",
                                       Str(urljoin(u, element.href.v))))

\* Lines 66-80: item_data for one item.
ItemData(doc, i, sels, u) ==
    IF RulesTruthy(sels) THEN RuleFields(doc, i, sels.rules, 1, u, <<>>)
    ELSE [raised |-> FALSE, rec |-> _extract_auto_data(doc, i)]

(***************************************************************************)
(* The inputs of parse_website: base URLs, rule sets, and the documents    *)
(* the site may serve.                                                     *)
(***************************************************************************)
BaseUrls ==
    { <<"https://x.com", "/">>,
      <<"https://x.com">>,
      <<"https://x.com", "/", "dir", "/", "list", "?", "q=1">> }

RuleSets ==
    { NoRules,
      Rules(<<>>),
      Rules(<<Rule("items", TagSel("li")), Rule("title", TagSel("a"))>>),
      Rules(<<Rule("title", TagSel("a")), Rule("price", ClassSel("price"))>>),
      Rules(<<Rule("title", TagSel("a")), Rule("title_link", TagSel("h2"))>>) }

Delays == {0, 1}

\* One product card: a heading, a link, an image and some text.
Card(href) ==
    << El("div", << <<"card">> >>, 0),
       El("h2", <<>>, 1), TextNode(<<"T", "1">>, 2),
       Anchor(href, 1), TextNode(<<" ", "g", "o", " ">>, 2),
       Img(Attr(<<"i.png">>), 1),
       TextNode(Chars(12), 1) >>

\* A list entry holding one link.
Entry(href, text) ==
    << El("li", <<>>, 0), Anchor(href, 1), TextNode(text, 2) >>

\* Two equal cards, an empty div and one list entry.
ShopDoc ==
    Card(Attr(<<"/", "a", "/", "b">>)) \o Card(Attr(<<"/", "a", "/", "b">>))
    \o << El("div", <<>>, 0) >> \o Entry(Attr(<<"/", "n">>), <<"n">>)

\* A list whose links carry an empty, a relative, a malformed and no href.
ListDoc ==
    Entry(Attr(<<>>), <<"x">>) \o Entry(Attr(<<"item">>), <<"y">>)
    \o Entry(Attr(<<"http://[">>), <<"z">>) \o Entry(NoAttr, Chars(11))

\* No repeated container: a wrapper div around an empty div, a lone .item and a
\* div holding an image without src and an absolute link.
PlainDoc ==
    << El("div", << <<"main">> >>, 0),
       El("div", <<>>, 1),
       El("span", << <<"item">> >>, 1), TextNode(<<"h", "i">>, 2),
       El("div", <<>>, 1), Img(NoAttr, 2),
       Anchor(Attr(<<"https://y.com", "/", "c">>), 2), TextNode(<<"c">>, 3) >>

Site == << ShopDoc, ListDoc, PlainDoc >>

FetchEvent(u, ok) == [ev |-> "fetch", url |-> u, ok |-> ok]

SleepEvent == [ev |-> "sleep", url |-> <<>>, ok |-> TRUE]

(***************************************************************************)
(* parse_website, one step at a time.                                      *)
(***************************************************************************)
NotCalled == [called |-> FALSE]

Init ==
    /\ url \in BaseUrls
    /\ selectors \in RuleSets
    /\ max_pages \in 0..MaxPages
    /\ delay \in Delays
    /\ pc = "fetch"
    /\ page = 1
    /\ soup = 0
    /\ items = <<>>
    /\ idx = 1
    /\ data = <<>>
    /\ err = "none"
    /\ log = <<>>
    /\ fetched = <<>>
    /\ extracted = "none"
    /\ arg = NotCalled
    /\ ret = NotCalled

\* Lines 39-63: the page's URL, a successful GET, the parse, the items.
Fetch ==
    /\ pc = "fetch"
    /\ page <= max_pages
    /\ \E d \in DOMAIN Site :
        /\ soup' = d
        /\ fetched' = Append(fetched, d)
        /\ items' = LocateItems(Site[d], selectors)
    /\ log' = Append(log, FetchEvent(PageUrl(url, page), TRUE))
    /\ idx' = 1
    /\ pc' = "items"
    /\ UNCHANGED <<url, selectors, max_pages, delay, page, data, err, extracted, arg, ret>>

\* Mutant of FetchFails: the records gathered so far are thrown away.
FetchFailsDropsData ==
    /\ pc = "fetch"
    /\ page <= max_pages
    /\ log' = Append(log, FetchEvent(PageUrl(url, page), FALSE))
    /\ err' = "fetch"
    /\ pc' = "done"
    /\ data' = <<>>
    /\ UNCHANGED <<url, selectors, max_pages, delay, page, soup, items, idx,
                   fetched, extracted, arg, ret>>

\* Lines 53-54 raise (transport error or raise_for_status): lines 89-92.
FetchFails ==
    /\ pc = "fetch"
    /\ page <= max_pages
    /\ log' = Append(log, FetchEvent(PageUrl(url, page), FALSE))
    /\ err' = "fetch"
    /\ pc' = "done"
    /\ UNCHANGED <<url, selectors, max_pages, delay, page, soup, items, idx, data,
                   fetched, extracted, arg, ret>>

\* Mutant of ExtractItem: the record is appended even when it is empty.
ExtractItemKeepsEmpty ==
    /\ pc = "items"
    /\ idx <= Len(items)
    /\ LET r == ItemData(Site[soup], items[idx], selectors, url)
       IN  /\ ~r.raised
           /\ data' = Append(data, r.rec)
    /\ extracted' = IF RulesTruthy(selectors) THEN "rules" ELSE "auto"
    /\ idx' = idx + 1
    /\ UNCHANGED <<url, selectors, max_pages, delay, pc, page, soup, items, err, log,
                   fetched, arg, ret>>

\* Lines 65-83 for one item: item_data, appended when it is not empty.
ExtractItem ==
    /\ pc = "items"
    /\ idx <= Len(items)
    /\ LET r == ItemData(Site[soup], items[idx], selectors, url)
       IN  /\ ~r.raised
           /\ data' = IF r.rec # <<>> THEN Append(data, r.rec) ELSE data
    /\ extracted' = IF RulesTruthy(selectors) THEN "rules" ELSE "auto"
    /\ idx' = idx + 1
    /\ UNCHANGED <<url, selectors, max_pages, delay, pc, page, soup, items, err, log,
                   fetched, arg, ret>>

\* Mutant of ExtractRaises: the failing item is skipped and the run goes on.
ExtractRaisesSkipsItem ==
    /\ pc = "items"
    /\ idx <= Len(items)
    /\ ItemData(Site[soup], items[idx], selectors, url).raised
    /\ extracted' = "rules"
    /\ err' = "extract"
    /\ idx' = idx + 1
    /\ UNCHANGED <<url, selectors, max_pages, delay, pc, page, soup, items, data, log,
                   fetched, arg, ret>>

\* Line 77 raises while the item is extracted: lines 89-92.
ExtractRaises ==
    /\ pc = "items"
    /\ idx <= Len(items)
    /\ ItemData(Site[soup], items[idx], selectors, url).raised
    /\ extracted' = "rules"
    /\ err' = "extract"
    /\ pc' = "done"
    /\ UNCHANGED <<url, selectors, max_pages, delay, page, soup, items, idx, data, log,
                   fetched, arg, ret>>

\* Mutant of Sleep: the run sleeps after the last page too.
SleepAfterEveryPage ==
    /\ pc = "items"
    /\ idx > Len(items)
    /\ page <= max_pages
    /\ log' = Append(log, SleepEvent)
    /\ page' = page + 1
    /\ pc' = "fetch"
    /\ UNCHANGED <<url, selectors, max_pages, delay, soup, items, idx, data, err,
                   fetched, extracted, arg, ret>>

\* Lines 86-87, then the next iteration.
Sleep ==
    /\ pc = "items"
    /\ idx > Len(items)
    /\ page < max_pages
    /\ log' = Append(log, SleepEvent)
    /\ page' = page + 1
    /\ pc' = "fetch"
    /\ UNCHANGED <<url, selectors, max_pages, delay, soup, items, idx, data, err,
                   fetched, extracted, arg, ret>>

\* The range is exhausted (at once when max_pages < 1): line 92.
Return ==
    /\ pc \in {"fetch", "items"}
    /\ IF pc = "items" THEN idx > Len(items) /\ page >= max_pages
       ELSE page > max_pages
    /\ pc' = "done"
    /\ UNCHANGED <<url, selectors, max_pages, delay, page, soup, items, idx, data, err,
                   log, fetched, extracted, arg, ret>>

Next ==
    \/ Fetch
    \/ FetchFails
    \/ ExtractItem
    \/ ExtractRaises
    \/ Sleep
    \/ Return

Spec == Init /\ [][Next]_vars

(***************************************************************************)
(* The functions on their own: the input is drawn by Init, one action      *)
(* calls the function.  parse_website is not running.                      *)
(***************************************************************************)
DriverIdle ==
    /\ url = <<>>
    /\ selectors = NoRules
    /\ max_pages = 0
    /\ delay = 0
    /\ pc = "done"
    /\ page = 1
    /\ soup = 0
    /\ items = <<>>
    /\ idx = 1
    /\ data = <<>>
    /\ err = "none"
    /\ log = <<>>
    /\ fetched = <<>>
    /\ extracted = "none"

BoundedSeqs(S, n) == UNION {[1..m -> S] : m \in 0..n}

Repeat(node, n) == [p \in 1..n |-> node]

\* ---- _auto_detect_items ------------------------------------------------
\* What a document is made of: divs, articles, list entries and spans, bare or
\* with one class; "items" contains "item" without being the class "item".
DetectKinds ==
    {El("div", c, 0) : c \in { <<>>, << <<"item">> >>, << <<"product">> >>,
                               << <<"card">> >>, << <<"post">> >>, << <<"item", "s">> >> }}
    \cup {El("span", c, 0) : c \in { <<>>, << <<"item">> >>, << <<"product">> >>,
                                     << <<"card">> >>, << <<"post">> >> }}
    \cup {El("article", <<>>, 0), El("li", <<>>, 0), El("article", << <<"post">> >>, 0)}

\* A run of a elements of one kind, a run of b of another, and n plain divs
\* before, between or after them.
DetectDoc(n, where, ka, a, kb, b) ==
    LET pad == Repeat(El("div", <<>>, 0), n)
    IN  CASE where = "before" -> pad \o Repeat(ka, a) \o Repeat(kb, b)
          [] where = "between" -> Repeat(ka, a) \o pad \o Repeat(kb, b)
          [] where = "after" -> Repeat(ka, a) \o Repeat(kb, b) \o pad

InitDetect ==
    /\ DriverIdle
    /\ \E n \in 0..MaxPad, where \in {"before", "between", "after"}, ka \in DetectKinds, kb \in DetectKinds,
          a \in 0..MaxRun, b \in 0..MaxRun :
          arg = [doc |-> DetectDoc(n, where, ka, a, kb, b)]
    /\ ret = NotCalled

CallAutoDetect ==
    /\ ~ret.called
    /\ ret' = [called |-> TRUE, v |-> _auto_detect_items(arg.doc)]
    /\ UNCHANGED <<driverVars, arg>>

SpecDetect == InitDetect /\ [][CallAutoDetect]_vars

\* ---- _extract_auto_data ------------------------------------------------
HrefChoices == {NoAttr, Attr(<<>>), Attr(<<"/", "a">>)}

SrcChoices == {NoAttr, Attr(<<>>), Attr(<<"i.png">>)}

HeadingText == <<"T", "1">>

\* An item: a div holding an optional heading, anchors, images and one text
\* node (the body, within white space when ws), followed by a sibling that is
\* not part of it.
AutoDoc(h, anchors, images, body, ws) ==
    LET space == IF ws THEN <<" ">> ELSE <<>>
    IN  << El("div", <<>>, 0) >>
        \o (IF h THEN << El("h3", <<>>, 1), TextNode(HeadingText, 2) >> ELSE <<>>)
        \o [p \in 1..Len(anchors) |-> Anchor(anchors[p], 1)]
        \o [p \in 1..Len(images) |-> Img(images[p], 1)]
        \o << TextNode(space \o body \o space, 1) >>
        \o << El("div", <<>>, 0), El("h1", <<>>, 1), TextNode(Chars(20), 2),
              Anchor(Attr(<<"/", "out">>), 1), Img(Attr(<<"o.png">>), 1) >>

\* Every text length up to MaxText, and the 250 characters of the spec's example.
TextLengths == (0..MaxText) \cup {250}

InitAuto ==
    /\ DriverIdle
    /\ \E h \in BOOLEAN, ws \in BOOLEAN, n \in TextLengths,
          anchors \in BoundedSeqs(HrefChoices, MaxAnchors),
          images \in BoundedSeqs(SrcChoices, MaxAnchors) :
          /\ n > MaxShort => anchors = <<>> /\ images = <<>>
          /\ arg = [doc |-> AutoDoc(h, anchors, images, Chars(n), ws), i |-> 1,
                    heading |-> h, anchors |-> anchors, images |-> images,
                    text |-> (IF h THEN HeadingText ELSE <<>>) \o Chars(n)]
    /\ ret = NotCalled

CallExtractAuto ==
    /\ ~ret.called
    /\ ret' = [called |-> TRUE, v |-> _extract_auto_data(arg.doc, arg.i)]
    /\ UNCHANGED <<driverVars, arg>>

SpecAuto == InitAuto /\ [][CallExtractAuto]_vars

\* ---- the rule-driven extraction of lines 66-77 -------------------------
LinkChoices ==
    { NoAttr, Attr(<<>>), Attr(<<"/", "a", "/", "b">>), Attr(<<"item">>),
      Attr(<<"https://y.com", "/", "c">>), Attr(<<"http://[">>) }

\* The children an item may have, each with its text.
ChildKinds ==
    {<< Anchor(h, 1), TextNode(<<" ", "g", "o">>, 2) >> : h \in LinkChoices}
    \cup { << El("h2", <<>>, 1), TextNode(<<"T", "1">>, 2) >>,
           << El("span", << <<"price">> >>, 1), TextNode(<<"9">>, 2) >> }

RECURSIVE Flatten(_)
Flatten(ss) == IF ss = <<>> THEN <<>> ELSE Head(ss) \o Flatten(Tail(ss))

RuleDoc(children) ==
    << El("div", <<>>, 0) >> \o Flatten(children)
    \o << El("div", <<>>, 0), Anchor(Attr(<<"/", "out">>), 1), TextNode(<<"o">>, 2),
          El("span", << <<"price">> >>, 1), TextNode(<<"0">>, 2) >>

\* Rule sets whose keys do not collide with another key's "_link" companion.
FieldRules ==
    { <<Rule("title", TagSel("a"))>>,
      <<Rule("items", TagSel("div")), Rule("title", TagSel("h2")), Rule("more", TagSel("a"))>>,
      <<Rule("price", ClassSel("price")), Rule("title", TagSel("a"))>> }

InitRule ==
    /\ DriverIdle
    /\ \E children \in BoundedSeqs(ChildKinds, MaxChildren), r \in FieldRules,
          u \in BaseUrls :
          arg = [doc |-> RuleDoc(children), i |-> 1, rules |-> r, url |-> u]
    /\ ret = NotCalled

CallRuleFields ==
    /\ ~ret.called
    /\ LET r == ItemData(arg.doc, arg.i, Rules(arg.rules), arg.url)
       IN  ret' = [called |-> TRUE, raised |-> r.raised, v |-> r.rec]
    /\ UNCHANGED <<driverVars, arg>>

SpecRule == InitRule /\ [][CallRuleFields]_vars

(***************************************************************************)
(* What the claims speak of.                                               *)
(***************************************************************************)
Last(s) == s[Len(s)]

IsPrefix(s, t) == Len(s) <= Len(t) /\ \A p \in 1..Len(s) : s[p] = t[p]

\* seq lists the members of the set S of numbers in increasing order.
ListsInOrder(seq, S) ==
    /\ Len(seq) = Cardinality(S)
    /\ \A p \in 1..Len(seq) : seq[p] \in S
    /\ \A p \in 1..Len(seq) : \A q \in 1..Len(seq) : p < q => seq[p] < seq[q]

\* The URLs of the fetches issued so far, in order.
FetchUrls ==
    LET f == SelectSeq(log, LAMBDA e : e.ev = "fetch")
    IN  [p \in 1..Len(f) |-> f[p].url]

NoFetchFailed == \A p \in 1..Len(log) : log[p].ok

SleepCount == Len(SelectSeq(log, LAMBDA e : e.ev = "sleep"))

\* The non-empty records of the first n of the items its of a document.
RECURSIVE RecordsUpTo(_, _, _)
RecordsUpTo(doc, its, n) ==
    IF n = 0 THEN <<>>
    ELSE LET r == ItemData(doc, its[n], selectors, url)
         IN  RecordsUpTo(doc, its, n - 1)
             \o (IF ~r.raised /\ r.rec # <<>> THEN <<r.rec>> ELSE <<>>)

PageRecords(d) ==
    LET its == LocateItems(Site[d], selectors)
    IN  RecordsUpTo(Site[d], its, Len(its))

\* The records of the first n fetched pages, in page order.
RECURSIVE PagesRecords(_, _)
PagesRecords(f, n) ==
    IF n = 0 THEN <<>> ELSE PagesRecords(f, n - 1) \o PageRecords(f[n])

\* The records the run has gathered when it has extracted the first idx - 1
\* items of the page fetched last.
GatheredSoFar ==
    IF fetched = <<>> THEN <<>>
    ELSE PagesRecords(fetched, Len(fetched) - 1)
         \o RecordsUpTo(Site[Last(fetched)], items, idx - 1)

\* C1: when the fetch of page k fails the run is over at once: that fetch is
\* the last thing the run did and the k-th fetch it issued, nothing can follow
\* it, and the result is exactly the records of pages 1..k-1.
C1_FetchFailureEndsRun ==
    err = "fetch" =>
        /\ pc = "done"
        /\ ~ENABLED Next
        /\ Last(log) = [ev |-> "fetch", url |-> Last(FetchUrls), ok |-> FALSE]
        /\ \A p \in 1..(Len(log) - 1) : log[p].ok
        /\ Len(FetchUrls) = page
        /\ Len(fetched) = page - 1
        /\ data = PagesRecords(fetched, page - 1)

C1_Witness ==
    /\ err = "fetch"
    /\ max_pages = 3
    /\ page = 2
    /\ data # <<>>
    /\ data = PageRecords(fetched[1])

\* The URL the spec gives for page n of base u.
StatedUrl(u, n) ==
    IF n = 1 THEN u
    ELSE u \o << (IF \E p \in 1..Len(u) : u[p] = "?" THEN "&" ELSE "?"),
                 "page=", ToString(n) >>

LacksItemsKey == \A p \in 1..Len(selectors.rules) : selectors.rules[p].k # "items"

\* The div elements of a document, in document order.
DivsOf(doc) == {j \in 1..Len(doc) : doc[j].tag = "div"}

\* C3 as stated: with any rule set given that lacks an `items` key the items
\* of a page are its div elements and the extraction is rule-driven.
C3_Original ==
    soup # 0 /\ selectors.given /\ LacksItemsKey =>
        /\ ListsInOrder(items, DivsOf(Site[soup]))
        /\ extracted # "auto"

\* C3, amended: with a non-empty rule set that lacks an `items` key the items
\* are the div elements and the extraction is rule-driven; the heuristic mode
\* is used exactly when the rule set is absent or empty.
C3_DefaultItemsSelector ==
    /\ soup # 0 /\ selectors.given /\ selectors.rules # <<>> /\ LacksItemsKey =>
           /\ ListsInOrder(items, DivsOf(Site[soup]))
           /\ extracted # "auto"
    /\ extracted = "auto" <=>
           /\ extracted # "none"
           /\ ~selectors.given \/ selectors.rules = <<>>

C3_Witness ==
    /\ selectors.given
    /\ selectors.rules # <<>>
    /\ LacksItemsKey
    /\ extracted = "rules"
    /\ Len(items) = 3
    /\ data # <<>>

\* C8: the result is at every point the non-empty records of the items
\* extracted so far, in page order and within a page in item order; none of
\* them is empty; and a step either leaves the result alone or appends one
\* record to it.
C8_ResultIsAppendOnlyConcatenation ==
    /\ [](data = GatheredSoFar /\ \A p \in 1..Len(data) : data[p] # <<>>)
    /\ [][data' = data \/ (Len(data') = Len(data) + 1 /\ IsPrefix(data, data'))]_vars

\* Equal records were both kept, and an item with an empty record was skipped.
C8_Witness ==
    /\ pc = "done"
    /\ Len(fetched) = 2
    /\ \E p \in 1..Len(data) : \E q \in 1..Len(data) : p < q /\ data[p] = data[q]
    /\ \E n \in 1..Len(items) :
           ItemData(Site[soup], items[n], selectors, url).rec = <<>>

\* C9: a sleep directly follows a successful fetch and directly precedes the
\* next one, so the log alternates fetch, sleep, fetch, ...; a finished run
\* does not end on a sleep and a run without any failure slept max_pages - 1
\* times; and the step that sleeps is taken when every item of a page before
\* the last has been extracted, and leads to the fetch of the next page.
C9_DelayBetweenPages ==
    /\ [](/\ \A p \in 1..Len(log) :
                 IF log[p].ev = "sleep"
                 THEN p > 1 /\ log[p - 1].ev = "fetch" /\ log[p - 1].ok
                 ELSE p > 1 => log[p - 1].ev = "sleep"
          /\ pc = "done" /\ log # <<>> => Last(log).ev = "fetch"
          /\ pc = "done" /\ err = "none" /\ max_pages >= 1 => SleepCount = max_pages - 1)
    /\ [][log' # log /\ Last(log').ev = "sleep" =>
              /\ pc = "items" /\ idx > Len(items) /\ page < max_pages
              /\ pc' = "fetch" /\ page' = page + 1 /\ data' = data]_vars

C9_Witness ==
    /\ pc = "done"
    /\ err = "none"
    /\ max_pages = 3
    /\ SleepCount = 2
    /\ data # <<>>

\* C10: when the extraction of the j-th item of a page raises, the run is over
\* at once and the result is the records of the pages before followed by those
\* of items 1..j-1 of that page: a prefix of the records of all fetched pages.
C10_ExtractionFailureKeepsPartialPage ==
    err = "extract" =>
        /\ pc = "done"
        /\ ~ENABLED Next
        /\ Len(fetched) = page
        /\ data = PagesRecords(fetched, page - 1)
                  \o RecordsUpTo(Site[soup], items, idx - 1)
        /\ IsPrefix(data, PagesRecords(fetched, page))

\* The run ended inside page 2, with records of that page already in the result.
C10_Witness ==
    /\ err = "extract"
    /\ page = 2
    /\ idx > 1
    /\ Len(data) > Len(PagesRecords(fetched, page - 1))
    /\ Len(PagesRecords(fetched, page - 1)) > 0

\* The candidate selectors in the order the claim gives them.
StatedOrder ==
    << Sel("div", "substr", "item"), Sel("div", "substr", "product"),
       Sel("div", "substr", "card"), Sel("div", "substr", "post"),
       Sel("article", "any", ""), Sel("li", "any", ""),
       Sel("*", "class", "item"), Sel("*", "class", "product"),
       Sel("*", "class", "card"), Sel("*", "class", "post") >>

MatchesOf(doc, sel) == {j \in 1..Len(doc) : Matches(doc[j], sel)}

\* The candidates, by position, that match more than one element of doc.
Repeating(doc) ==
    {c \in 1..Len(StatedOrder) : Cardinality(MatchesOf(doc, StatedOrder[c])) > 1}

C5_Original ==
    ret.called /\ ~ret.raised =>
        \A n \in 1..Len(arg.rules) :
            LET key == arg.rules[n].k
                found == Select(arg.doc, arg.i, arg.rules[n].sel)
            IN  key # "items" =>
                    IF found = <<>>
                    THEN ~HasKey(ret.v, key) /\ ~HasKey(ret.v, key \o "_link")
                    ELSE /\ HasKey(ret.v, key \o "_link") <=> arg.doc[found[1]].href.has
                         /\ HasKey(ret.v, key \o "_link") =>
                                Get(ret.v, key \o "_link").v
                                    = << urljoin(arg.url, arg.doc[found[1]].href.v) >>

UsableCount(attrs) == Len(SelectSeq(attrs, LAMBDA a : a.has /\ a.v # <<>>))

\* C6 as stated: `links` and `images` are in the record only with a non-empty
\* list, and an item with no heading, no usable link, no usable image and a
\* text of at most 10 characters gives the empty record.
C6_Original ==
    ret.called =>
        /\ HasKey(ret.v, "links") => Get(ret.v, "links").v # <<>>
        /\ HasKey(ret.v, "images") => Get(ret.v, "images").v # <<>>
        /\ /\ ~arg.heading
           /\ UsableCount(arg.anchors) = 0
           /\ UsableCount(arg.images) = 0
           /\ Len(arg.text) <= 10
           => ret.v = <<>>

\* C7: with L the length of the item's trimmed text, `text` is in the record
\* exactly when L > 10; it is the first 200 characters and the marker when
\* L > 200, and the text itself otherwise.
C7_TextThresholds ==
    ret.called =>
        LET L == Len(arg.text)
        IN  /\ HasKey(ret.v, "text") <=> L > 10
            /\ L > 200 =>
                   /\ ~Get(ret.v, "text").list
                   /\ Get(ret.v, "text").v = << SubSeq(arg.text, 1, 200) \o <<".", ".", ".">> >>
            /\ L > 10 /\ L <= 200 =>
                   /\ ~Get(ret.v, "text").list
                   /\ Get(ret.v, "text").v = << arg.text >>

\* The spec's 250 characters: 200 of them and the marker.
C7_Witness ==
    /\ ret.called
    /\ Len(arg.text) = 250
    /\ HasKey(ret.v, "text")
    /\ Len(Get(ret.v, "text").v[1]) = 203

====
